---- MODULE Spec2Model ----
(***************************************************************************)
(* Execution engine of the mini shell (cmd.c): parse_command walks a       *)
(* command tree, parse_simple runs one leaf with its redirections, and     *)
(* run_in_parallel / run_on_pipe fork children that re-enter               *)
(* parse_command.  The repository holds two builds of the engine,          *)
(* src/src/cmd.c and src/unnamed/part_000; the variable impl says which    *)
(* one a behaviour runs.                                                   *)
(*                                                                         *)
(* Every process is a record with its own descriptor table and its own     *)
(* call stack; fork copies both.  Descriptors point to open file           *)
(* descriptions, so that "bound to the same open file" is an equality.     *)
(***************************************************************************)
EXTENDS Integers, Sequences, FiniteSets, TLC

\* ran is a history variable: for each node of the tree, the processes that
\* have called parse_simple on it, in the order of the calls
VARIABLES impl, tree, procs, fs, forkFails, pipeFails, ran

vars == <<impl, tree, procs, fs, forkFails, pipeFails, ran>>

(***************************************************************************)
(* Bounds of the model.                                                    *)
(***************************************************************************)
\* highest descriptor number of a process (descriptors are 0..MaxFd)
MaxFd == 9
\* number of fork() calls that may fail in one behaviour
MaxForkFail == 1
\* number of pipe() calls that may fail in one behaviour
MaxPipeFail == 1

(***************************************************************************)
(* Program constants.                                                      *)
(***************************************************************************)
STDIN_FILENO == 0
STDOUT_FILENO == 1
STDERR_FILENO == 2
\* cmd.h is not part of the sources; the value is the one the specification
\* gives for the exit/quit built-in
SHELL_EXIT == 0
EXIT_FAILURE == 1
ExecFailed == 127
IO_REGULAR == 0
IO_OUT_APPEND == 1
IO_ERR_APPEND == 2

Impls == {"cmd.c", "part_000"}

\* exit(n) / WEXITSTATUS: the low 8 bits of n
ExitCode(n) == n % 256

(***************************************************************************)
(* Words and simple commands (simple_command_t).                           *)
(***************************************************************************)
\* a word_t pointer: id is the identity of the pointer, str what get_word
\* resolves it to; id 0 is the NULL pointer
NullWord == [id |-> 0, str |-> "NULL"]
Word(i, s) == [id |-> i, str |-> s]

\* get_word: utils.c is not part of the sources; an opaque resolution of a
\* word to its string, NULL for the NULL pointer
get_word(w) == w.str

verb_exit == <<"e", "x", "i", "t">>
verb_quit == <<"q", "u", "i", "t">>
verb_cd == <<"c", "d">>
verb_true == <<"t", "r", "u", "e">>
verb_false == <<"f", "a", "l", "s", "e">>
verb_three == <<"r", "c", "3">>
verb_missing == <<"n", "o", "n", "e">>
verb_assign == <<"X", "=", "1">>
verb_assign_two == <<"X", "=", "a", "=", "b">>
verb_assign_empty == <<"X", "=">>
\* a program that reads its standard input up to end-of-stream, then exits
verb_cat == <<"c", "a", "t">>

\* the programs execvp can find, with the status each one exits with
ProgStatus(verb) ==
  CASE verb = verb_true -> 0
    [] verb = verb_false -> 1
    [] verb = verb_three -> 3
    [] verb = verb_cat -> 0
    [] OTHER -> -1

CanExec(verb) == ProgStatus(verb) >= 0

\* files: "a" exists, "b" does not exist but can be created, "ro" does not
\* exist and cannot be created; the only directory chdir accepts is "dir"
FileNames == {"a", "b", "ro"}
Creatable == {"a", "b"}
Dirs == {"dir"}

\* s->params: the list of argument words, as the sequence of their strings
Scmd(verb, params, in, out, err, io_flags) ==
  [verb |-> verb, params |-> params, in |-> in, out |-> out, err |-> err,
   io_flags |-> io_flags]

NoScmd == Scmd(<<>>, <<>>, NullWord, NullWord, NullWord, IO_REGULAR)

(***************************************************************************)
(* Command trees (command_t): a function from the paths of the nodes       *)
(* (<<>> is the root, p \o <<1>> is cmd1 of p, p \o <<2>> is cmd2) to the  *)
(* node's op and scmd.  A command_t pointer is a path.                     *)
(***************************************************************************)
Simple(s) == [p \in {<<>>} |-> [op |-> "OP_NONE", scmd |-> s]]

Cmd(op, l, r) ==
  [p \in {<<>>} \cup {<<1>> \o q : q \in DOMAIN l}
                \cup {<<2>> \o q : q \in DOMAIN r} |->
     IF p = <<>> THEN [op |-> op, scmd |-> NoScmd]
     ELSE IF Head(p) = 1 THEN l[Tail(p)] ELSE r[Tail(p)]]

Plain(verb) == Simple(Scmd(verb, <<>>, NullWord, NullWord, NullWord, IO_REGULAR))
Redir(verb, in, out, err, fl) == Simple(Scmd(verb, <<>>, in, out, err, fl))

(***************************************************************************)
(* Descriptor tables.  A table maps 0..MaxFd to an open file description;  *)
(* the description records who created it, so two opens of the same file   *)
(* are two descriptions.                                                   *)
(***************************************************************************)
Ofd(kind, name, pid, node, desc) ==
  [kind |-> kind, name |-> name, pid |-> pid, node |-> node, desc |-> desc]

\* process identifiers: the shell is <<>>, and the process that pid creates
\* by the fork of its activation for node c is pid extended by <<c, k>>,
\* k = 0 for the fork of parse_simple, 1 and 2 for the first and second
\* fork of run_in_parallel and run_on_pipe.  NoPid is no process of the model.
ShellPid == <<>>
NoPid == << <<<<>>, -1>> >>
ForkPid(pid, c, k) == Append(pid, <<c, k>>)

NoFile == Ofd("closed", "", NoPid, <<>>, 0)

Tty(name) == Ofd("tty", name, NoPid, <<>>, 0)

InitFds ==
  [fd \in 0..MaxFd |->
     CASE fd = STDIN_FILENO -> Tty("stdin")
       [] fd = STDOUT_FILENO -> Tty("stdout")
       [] fd = STDERR_FILENO -> Tty("stderr")
       [] OTHER -> NoFile]

AllClosed == [fd \in 0..MaxFd |-> NoFile]

IsOpen(fds, fd) == fd \in 0..MaxFd /\ fds[fd].kind # "closed"

FreeFds(fds) == {fd \in 0..MaxFd : fds[fd].kind = "closed"}

\* the descriptor number open, dup and pipe hand out: the lowest free one,
\* -1 when the table is full
\* (the table is bound once, as t, so that evaluating the result does not
\* evaluate the table again for every descriptor)
LowestFree(fds) ==
  CHOOSE n \in {(IF FreeFds(t) = {} THEN -1
                 ELSE CHOOSE fd \in FreeFds(t) : \A g \in FreeFds(t) : fd <= g) :
                t \in {fds}} : TRUE

\* close(fd)
close(fds, fd) == IF fd \in 0..MaxFd THEN [fds EXCEPT ![fd] = NoFile] ELSE fds

\* dup(fd): the new table and the descriptor returned
dup(fds, fd) ==
  IF IsOpen(fds, fd) /\ LowestFree(fds) # -1
  THEN [fds |-> [fds EXCEPT ![LowestFree(fds)] = fds[fd]], fd |-> LowestFree(fds)]
  ELSE [fds |-> fds, fd |-> -1]

\* dup2(fd, descriptor): the new table and the return code
dup2(fds, fd, descriptor) ==
  IF IsOpen(fds, fd) /\ descriptor \in 0..MaxFd
  THEN [fds |-> [fds EXCEPT ![descriptor] = fds[fd]], rc |-> 0]
  ELSE [fds |-> fds, rc |-> -1]

\* dup_fd: dup2, closing fd when dup2 fails
dup_fd(fds, fd, descriptor) ==
  LET d == dup2(fds, fd, descriptor)
  IN  IF d.rc = -1 THEN [fds |-> close(fds, fd), rc |-> -1] ELSE d

\* open(filename, O_RDONLY) succeeds on an existing file
CanOpenRead(files, filename) ==
  filename \in FileNames /\ files[filename] # "absent"

\* open(filename, O_WRONLY | O_CREAT | ..., 0644) succeeds where the file
\* can be written or created
CanOpenWrite(filename) == filename \in Creatable

\* descriptor & STDOUT_FILENO, descriptor & STDERR_FILENO
BitOut(descriptor) == descriptor % 2
BitErr(descriptor) == ((descriptor \div 2) % 2) * 2

(***************************************************************************)
(* redirect(filename, descriptor, append): the new descriptor table, the   *)
(* new file system and the return code.  part_000 has one function per     *)
(* stream (redirect_input, redirect_output, redirect_stderr,               *)
(* redirect_output_stderr) with the same opens and dup2 calls.             *)
(***************************************************************************)
redirect(fds, files, filename, descriptor, append, pid, node) ==
  IF descriptor = STDIN_FILENO
  THEN IF ~CanOpenRead(files, filename) \/ LowestFree(fds) = -1
       THEN [fds |-> fds, fs |-> files, rc |-> -1]
       ELSE LET fd == LowestFree(fds)
                o == [fds EXCEPT ![fd] = Ofd("file", filename, pid, node, descriptor)]
            IN  [fds |-> close(dup_fd(o, fd, STDIN_FILENO).fds, fd),
                 fs |-> files, rc |-> 0]
  ELSE IF ~CanOpenWrite(filename) \/ LowestFree(fds) = -1
       THEN [fds |-> fds, fs |-> files, rc |-> -1]
       ELSE LET fd == LowestFree(fds)
                o == [fds EXCEPT ![fd] = Ofd("file", filename, pid, node, descriptor)]
                o1 == IF BitOut(descriptor) # 0
                      THEN dup_fd(o, fd, STDOUT_FILENO).fds ELSE o
                o2 == IF BitErr(descriptor) # 0
                      THEN dup_fd(o1, fd, STDERR_FILENO).fds ELSE o1
                \* O_APPEND keeps the content, O_TRUNC empties the file,
                \* O_CREAT creates it empty
                f2 == IF append # 0 /\ files[filename] # "absent"
                      THEN files
                      ELSE [files EXCEPT ![filename] = "empty"]
            IN  [fds |-> close(o2, fd), fs |-> f2, rc |-> 0]

\* s->io_flags & IO_OUT_APPEND, s->io_flags & IO_ERR_APPEND
OutAppend(io_flags) == (io_flags % 2) * IO_OUT_APPEND
ErrAppend(io_flags) == ((io_flags \div 2) % 2) * IO_ERR_APPEND

\* apply_redirections that goes on to the output and error targets after the
\* input redirection failed
apply_redirections_continues(im, s, fds, files, pid, node) ==
  LET in == get_word(s.in)
      r0 == IF s.in # NullWord
            THEN redirect(fds, files, in, STDIN_FILENO, 0, pid, node)
            ELSE [fds |-> fds, fs |-> files, rc |-> 0]
  IN  IF s.err # NullWord /\ s.out # NullWord /\ s.err = s.out
      THEN LET r1 == redirect(r0.fds, r0.fs, get_word(s.out),
                              STDOUT_FILENO + STDERR_FILENO, 0, pid, node)
           IN  IF im = "cmd.c" THEN r1 ELSE [r1 EXCEPT !.rc = r0.rc]
      ELSE LET r1 == IF s.err # NullWord
                     THEN redirect(r0.fds, r0.fs, get_word(s.err), STDERR_FILENO,
                                   ErrAppend(s.io_flags), pid, node)
                     ELSE r0
               r2 == IF s.out # NullWord
                     THEN redirect(r1.fds, r1.fs, get_word(s.out), STDOUT_FILENO,
                                   OutAppend(s.io_flags), pid, node)
                     ELSE r1
           IN  r2

\* apply_redirections whose merged branch honours the output append flag
apply_redirections_merged_append(im, s, fds, files, pid, node) ==
  LET in == get_word(s.in)
      r0 == IF s.in # NullWord
            THEN redirect(fds, files, in, STDIN_FILENO, 0, pid, node)
            ELSE [fds |-> fds, fs |-> files, rc |-> 0]
  IN  IF r0.rc = -1 THEN r0
      ELSE IF s.err # NullWord /\ s.out # NullWord /\ s.err = s.out
      THEN LET r1 == redirect(r0.fds, r0.fs, get_word(s.out),
                              STDOUT_FILENO + STDERR_FILENO,
                              OutAppend(s.io_flags), pid, node)
           IN  IF im = "cmd.c" THEN r1 ELSE [r1 EXCEPT !.rc = r0.rc]
      ELSE LET r1 == IF s.err # NullWord
                     THEN redirect(r0.fds, r0.fs, get_word(s.err), STDERR_FILENO,
                                   ErrAppend(s.io_flags), pid, node)
                     ELSE r0
               r2 == IF s.out # NullWord
                     THEN redirect(r1.fds, r1.fs, get_word(s.out), STDOUT_FILENO,
                                   OutAppend(s.io_flags), pid, node)
                     ELSE r1
           IN  r2

(***************************************************************************)
(* apply_redirections(s).  In part_000 the merged branch assigns the       *)
(* result of the redirection to a new local that shadows exit_status.      *)
(***************************************************************************)
apply_redirections(im, s, fds, files, pid, node) ==
  LET in == get_word(s.in)
      r0 == IF s.in # NullWord
            THEN redirect(fds, files, in, STDIN_FILENO, 0, pid, node)
            ELSE [fds |-> fds, fs |-> files, rc |-> 0]
  IN  IF r0.rc = -1 THEN r0
      ELSE IF s.err # NullWord /\ s.out # NullWord /\ s.err = s.out
      THEN LET r1 == redirect(r0.fds, r0.fs, get_word(s.out),
                              STDOUT_FILENO + STDERR_FILENO, 0, pid, node)
           IN  IF im = "cmd.c" THEN r1 ELSE [r1 EXCEPT !.rc = r0.rc]
      ELSE LET r1 == IF s.err # NullWord
                     THEN redirect(r0.fds, r0.fs, get_word(s.err), STDERR_FILENO,
                                   ErrAppend(s.io_flags), pid, node)
                     ELSE r0
               r2 == IF s.out # NullWord
                     THEN redirect(r1.fds, r1.fs, get_word(s.out), STDOUT_FILENO,
                                   OutAppend(s.io_flags), pid, node)
                     ELSE r1
           IN  r2

(***************************************************************************)
(* duplicate_file_descriptors: the new table and the three saved           *)
(* descriptors <<original_stdin, original_stdout, original_stderr>>.       *)
(***************************************************************************)
duplicate_file_descriptors(im, fds) ==
  LET d0 == dup(fds, STDIN_FILENO)
      d1 == dup(d0.fds, STDOUT_FILENO)
      d2 == dup(d1.fds, STDERR_FILENO)
      failed == d0.fd = -1 \/ d1.fd = -1 \/ d2.fd = -1
  IN  [fds |-> IF im = "cmd.c" /\ failed
               THEN close(close(close(d2.fds, d0.fd), d1.fd), d2.fd)
               ELSE d2.fds,
       original |-> <<d0.fd, d1.fd, d2.fd>>]

\* restore_file_descriptors(original_stdin, original_stdout, original_stderr)
restore_file_descriptors(fds, original) ==
  LET r0 == dup_fd(fds, original[1], STDIN_FILENO).fds
      r1 == dup_fd(r0, original[2], STDOUT_FILENO).fds
      r2 == dup_fd(r1, original[3], STDERR_FILENO).fds
  IN  close(close(close(r2, original[1]), original[2]), original[3])

(***************************************************************************)
(* Built-ins.                                                              *)
(***************************************************************************)
\* shell_cd(dir): whether it succeeded, and the working directory after it
shell_cd(im, params, dir) ==
  IF Len(params) # 1
  THEN [ok |-> (im = "part_000"), cwd |-> dir]
  ELSE IF params[1] \in Dirs
       THEN [ok |-> TRUE, cwd |-> params[1]]
       ELSE [ok |-> FALSE, cwd |-> dir]

IsDelim(ch) == ch = "="

\* strtok_r(str, "=", &saveptr) from position i of command: the token
\* (NullStr when there is none) and the position scanning resumes at
NullStr == <<"NULL">>

RECURSIVE SkipDelims(_, _)
SkipDelims(command, i) ==
  IF i <= Len(command) /\ IsDelim(command[i]) THEN SkipDelims(command, i + 1)
  ELSE i

RECURSIVE TokenEnd(_, _)
TokenEnd(command, i) ==
  IF i <= Len(command) /\ ~IsDelim(command[i]) THEN TokenEnd(command, i + 1)
  ELSE i

strtok_r(command, i) ==
  LET b == SkipDelims(command, i)
      e == TokenEnd(command, b)
  IN  IF b > Len(command) THEN [tok |-> NullStr, next |-> b]
      ELSE [tok |-> SubSeq(command, b, e - 1), next |-> e + 1]

\* parse_environment_variable(command): the environment after setenv
parse_environment_variable(environ, command) ==
  LET t1 == strtok_r(command, 1)
      t2 == strtok_r(command, t1.next)
  IN  IF t1.tok = NullStr THEN environ
      ELSE {e \in environ : e[1] # t1.tok} \cup {<<t1.tok, t2.tok>>}

\* setenv(name, NULL, 1) has no defined behaviour: the C library may bind
\* the name to the empty string, bind it to whatever follows in memory
\* (NullStr stands for that value), or dereference the null pointer, which
\* kills the process.  The outcomes of parse_environment_variable: the
\* environment after it, or killed.
EnvOutcomes(environ, command) ==
  LET t1 == strtok_r(command, 1)
      t2 == strtok_r(command, t1.next)
      bound == parse_environment_variable(environ, command)
  IN  IF t1.tok # NullStr /\ t2.tok = NullStr
      THEN {[env |-> bound, killed |-> FALSE],
            [env |-> {e \in environ : e[1] # t1.tok} \cup {<<t1.tok, <<>> >>},
             killed |-> FALSE],
            [env |-> environ, killed |-> TRUE]}
      ELSE {[env |-> bound, killed |-> FALSE]}

\* strstr(command, "=") != NULL
HasEquals(command) == \E i \in 1..Len(command) : command[i] = "="

(***************************************************************************)
(* Processes.  image is <<>> while the process runs the shell's own code   *)
(* and the verb of the program after a successful execvp.  st is           *)
(* "running", "zombie" (terminated, not yet waited for) or "reaped".       *)
(* procs maps the pids of the processes created so far to their records.   *)
(***************************************************************************)

\* the locals of one activation of parse_command with the parse_simple,
\* run_in_parallel or run_on_pipe call it makes for its node c
Frame(c, pc) ==
  [c |-> c, pc |-> pc, original |-> <<-1, -1, -1>>, pid |-> NoPid,
   pid1 |-> NoPid, pid2 |-> NoPid, pipefd |-> <<-1, -1>>, exit_status |-> 0]

NewFrame(c) == Frame(c, "enter")

InitProc ==
  [ppid |-> NoPid, st |-> "running", status |-> 0, image |-> <<>>,
   fds |-> InitFds, stack |-> <<NewFrame(<<>>)>>, ret |-> 0,
   env |-> {}, cwd |-> "home"]

TopOf(q) == q.stack[Len(q.stack)]

\* the process runs shell code and is inside parse_command
InShell(q) == q.st = "running" /\ q.image = <<>> /\ q.stack # <<>>

Terminated(q) == q.st \in {"zombie", "reaped"}

WithTop(q, f) == [q EXCEPT !.stack[Len(q.stack)] = f]

\* the current activation continues at f.pc after parse_command(c, ...)
Call(q, f, c) == [WithTop(q, f) EXCEPT !.stack = Append(@, NewFrame(c))]

\* return v from the current activation of parse_command
Return(q, v) ==
  [q EXCEPT !.stack = SubSeq(q.stack, 1, Len(q.stack) - 1), !.ret = v]

\* exit(n): the process terminates, all its descriptors are closed
Exit(q, n) ==
  [q EXCEPT !.st = "zombie", !.status = ExitCode(n), !.fds = AllClosed,
            !.stack = <<>>]

\* the process is killed by a signal; WEXITSTATUS of its status is 0
Killed(q) ==
  [q EXCEPT !.st = "zombie", !.status = 0, !.fds = AllClosed, !.stack = <<>>]

\* the process fork() creates: a copy of q whose current activation is at pc
Child(q, p, pc) ==
  [WithTop(q, [TopOf(q) EXCEPT !.pc = pc]) EXCEPT !.ppid = p]

\* procs after the fork of child with identifier pid
Forked(ps, pid, child) == (pid :> child) @@ ps

At(p, pc) == InShell(procs[p]) /\ TopOf(procs[p]).pc = pc

OpOf(p) == tree[TopOf(procs[p]).c].op

\* waitpid(pid, &status, 0) can return: the child has terminated
CanReap(pid) == pid \in DOMAIN procs /\ procs[pid].st = "zombie"

Unchanged == UNCHANGED <<impl, tree, fs, forkFails, pipeFails, ran>>

\* shell_exit that hands SHELL_EXIT back to its caller instead of exiting
shell_exit_returns(im, q) == Return(q, SHELL_EXIT)

\* shell_exit(): exit(SHELL_EXIT) in cmd.c, exit(0) in part_000
shell_exit(im, q) == Exit(q, IF im = "cmd.c" THEN SHELL_EXIT ELSE 0)

(***************************************************************************)
(* parse_simple up to its first return, exit or fork.                      *)
(***************************************************************************)
ParseSimple(p) ==
  /\ At(p, "enter")
  /\ OpOf(p) = "OP_NONE"
  /\ LET q == procs[p]
         f == TopOf(q)
         s == tree[f.c].scmd
         command == s.verb
     IN  \* each of the three calls is made once, on the result of the one
         \* before it
         \E d \in {duplicate_file_descriptors(impl, q.fds)} :
         \E r \in {apply_redirections(impl, s, d.fds, fs, p, f.c)} :
         \E restored \in {restore_file_descriptors(r.fds, d.original)} :
         /\ fs' = r.fs
         /\ IF r.rc = -1
            THEN \* redirection failed
                 /\ procs' = [procs EXCEPT ![p] = Return([q EXCEPT !.fds = r.fds], -1)]
                 /\ UNCHANGED forkFails
            ELSE IF command = verb_exit \/ command = verb_quit
            THEN /\ procs' = [procs EXCEPT ![p] = shell_exit(impl, q)]
                 /\ UNCHANGED forkFails
            ELSE IF command = verb_cd
            THEN LET cd == shell_cd(impl, s.params, q.cwd)
                 IN  /\ procs' = [procs EXCEPT ![p] =
                          Return([q EXCEPT !.fds = restored, !.cwd = cd.cwd],
                                 IF cd.ok THEN 0 ELSE 1)]
                     /\ UNCHANGED forkFails
            ELSE IF HasEquals(command)
            THEN \* part_000 calls parse_env_assignment, which is not in the
                 \* sources; it is taken to bind the variable as
                 \* parse_environment_variable of cmd.c does, and part_000
                 \* returns without restoring the streams
                 /\ \E o \in EnvOutcomes(q.env, command) :
                      procs' = [procs EXCEPT ![p] =
                        IF o.killed THEN Killed(q)
                        ELSE Return([q EXCEPT
                                       !.fds = IF impl = "cmd.c" THEN restored
                                               ELSE r.fds,
                                       !.env = o.env],
                                    0)]
                 /\ UNCHANGED forkFails
            ELSE \/ \* fork() fails
                    /\ forkFails < MaxForkFail
                    /\ forkFails' = forkFails + 1
                    /\ procs' = [procs EXCEPT ![p] =
                         Return([q EXCEPT
                                   !.fds = IF impl = "cmd.c" THEN restored ELSE r.fds],
                                -1)]
                 \/ /\ UNCHANGED forkFails
                    /\ LET q1 == WithTop([q EXCEPT !.fds = r.fds],
                                         [f EXCEPT !.original = d.original])
                           pid == ForkPid(p, f.c, 0)
                           parent == WithTop(q1, [TopOf(q1) EXCEPT !.pc = "waitpid",
                                                                   !.pid = pid])
                       IN  procs' = Forked([procs EXCEPT ![p] = parent], pid,
                                           Child(q1, p, "execvp"))
  /\ ran' = [ran EXCEPT ![TopOf(procs[p]).c] = Append(@, p)]
  /\ UNCHANGED <<impl, tree, pipeFails>>

(***************************************************************************)
(* The child of parse_simple: execvp(command, argv), and exit when execvp  *)
(* returns.                                                                *)
(***************************************************************************)
ExecChild(p) ==
  /\ At(p, "execvp")
  /\ LET q == procs[p]
         command == tree[TopOf(q).c].scmd.verb
     IN  procs' = [procs EXCEPT ![p] =
           IF CanExec(command)
           THEN [q EXCEPT !.image = command, !.stack = <<>>]
           ELSE Exit(q, IF impl = "cmd.c" THEN ExecFailed ELSE EXIT_FAILURE)]
  /\ Unchanged

\* read() on the standard input of p reaches end-of-stream: a pipe reports
\* it once no process holds a descriptor for its write end
EndOfStream(p) ==
  LET r == procs[p].fds[STDIN_FILENO]
  IN  r.kind = "pipe_r" =>
        \A q \in DOMAIN procs : \A fd \in DOMAIN procs[q].fds :
          procs[q].fds[fd] # [r EXCEPT !.kind = "pipe_w"]

\* the program a child executes terminates; verb_cat does so once it has
\* read end-of-stream
ProgramExit(p) ==
  /\ procs[p].st = "running"
  /\ procs[p].image # <<>>
  /\ procs[p].image = verb_cat => EndOfStream(p)
  /\ procs' = [procs EXCEPT ![p] = Exit(procs[p], ProgStatus(procs[p].image))]
  /\ Unchanged

\* the parent in parse_simple: waitpid, restore, return WEXITSTATUS(status)
SimpleWait(p) ==
  /\ At(p, "waitpid")
  /\ LET q == procs[p]
         f == TopOf(q)
     IN  /\ CanReap(f.pid)
         /\ procs' = [procs EXCEPT
              ![f.pid].st = "reaped",
              ![p] = Return([q EXCEPT !.fds = restore_file_descriptors(q.fds, f.original)],
                            procs[f.pid].status)]
  /\ Unchanged

(***************************************************************************)
(* parse_command on OP_SEQUENTIAL, OP_CONDITIONAL_NZERO and                *)
(* OP_CONDITIONAL_ZERO.                                                    *)
(***************************************************************************)
Ordered == {"OP_SEQUENTIAL", "OP_CONDITIONAL_NZERO", "OP_CONDITIONAL_ZERO"}

Known == Ordered \cup {"OP_NONE", "OP_PARALLEL", "OP_PIPE"}

\* the two conditional operators with their tests exchanged
RunsCmd2_swapped(op, exit_status) ==
  CASE op = "OP_SEQUENTIAL" -> TRUE
    [] op = "OP_CONDITIONAL_NZERO" -> exit_status = 0
    [] op = "OP_CONDITIONAL_ZERO" -> exit_status # 0
    [] OTHER -> FALSE

\* a sequence that stops after a failing cmd1
RunsCmd2_seq_stops(op, exit_status) ==
  CASE op = "OP_SEQUENTIAL" -> exit_status = 0
    [] op = "OP_CONDITIONAL_NZERO" -> exit_status # 0
    [] op = "OP_CONDITIONAL_ZERO" -> exit_status = 0
    [] OTHER -> FALSE

\* whether parse_command goes on to cmd2 once cmd1 returned exit_status
RunsCmd2(op, exit_status) ==
  CASE op = "OP_SEQUENTIAL" -> TRUE
    [] op = "OP_CONDITIONAL_NZERO" -> exit_status # 0
    [] op = "OP_CONDITIONAL_ZERO" -> exit_status = 0
    [] OTHER -> FALSE

\* exit_status = parse_command(c->cmd1, level + 1, c)
EnterCmd1(p) ==
  /\ At(p, "enter")
  /\ OpOf(p) \in Ordered
  /\ LET q == procs[p]
         f == TopOf(q)
     IN  procs' = [procs EXCEPT ![p] =
           Call(q, [f EXCEPT !.pc = "cmd1_done"], f.c \o <<1>>)]
  /\ Unchanged

\* cmd1 returned: parse_command(c->cmd2, level + 1, c), or break
AfterCmd1(p) ==
  /\ At(p, "cmd1_done")
  /\ LET q == procs[p]
         f == [TopOf(q) EXCEPT !.exit_status = q.ret]
     IN  procs' = [procs EXCEPT ![p] =
           IF RunsCmd2(tree[f.c].op, f.exit_status)
           THEN Call(q, [f EXCEPT !.pc = "cmd2_done"], f.c \o <<2>>)
           ELSE Return(q, f.exit_status)]
  /\ Unchanged

\* cmd2 returned: return exit_status
AfterCmd2(p) ==
  /\ At(p, "cmd2_done")
  /\ procs' = [procs EXCEPT ![p] = Return(procs[p], procs[p].ret)]
  /\ Unchanged

\* default: return SHELL_EXIT
UnknownOp(p) ==
  /\ At(p, "enter")
  /\ OpOf(p) \notin Known
  /\ procs' = [procs EXCEPT ![p] = Return(procs[p], SHELL_EXIT)]
  /\ Unchanged

(***************************************************************************)
(* Children of run_in_parallel and run_on_pipe:                            *)
(* exit(parse_command(cmd, level + 1, father)).                            *)
(***************************************************************************)
ParChild(p) ==
  /\ \/ At(p, "par_child1")
     \/ At(p, "par_child2")
  /\ LET q == procs[p]
         f == TopOf(q)
     IN  procs' = [procs EXCEPT ![p] =
           Call(q, [f EXCEPT !.pc = "child_exit"],
                f.c \o (IF f.pc = "par_child1" THEN <<1>> ELSE <<2>>))]
  /\ Unchanged

\* a child of run_on_pipe that does not close the end of the pipe it does
\* not use
PipeChild_keeps_unused(p) ==
  /\ \/ At(p, "pipe_child1")
     \/ At(p, "pipe_child2")
  /\ LET q == procs[p]
         f == TopOf(q)
         first == f.pc = "pipe_child1"
         used == IF first THEN f.pipefd[2] ELSE f.pipefd[1]
         c2 == dup2(q.fds, used, IF first THEN STDOUT_FILENO ELSE STDIN_FILENO).fds
         c3 == close(c2, used)
     IN  procs' = [procs EXCEPT ![p] =
           Call([q EXCEPT !.fds = c3], [f EXCEPT !.pc = "child_exit"],
                f.c \o (IF first THEN <<1>> ELSE <<2>>))]
  /\ Unchanged

\* the children of run_on_pipe up to their call of parse_command
PipeChild(p) ==
  /\ \/ At(p, "pipe_child1")
     \/ At(p, "pipe_child2")
  /\ LET q == procs[p]
         f == TopOf(q)
         first == f.pc = "pipe_child1"
         \* child 1 closes the read end and binds stdout to the write end,
         \* child 2 closes the write end and binds stdin to the read end
         unused == IF first THEN f.pipefd[1] ELSE f.pipefd[2]
         used == IF first THEN f.pipefd[2] ELSE f.pipefd[1]
         c1 == close(q.fds, unused)
         c2 == dup2(c1, used, IF first THEN STDOUT_FILENO ELSE STDIN_FILENO).fds
         c3 == close(c2, used)
     IN  procs' = [procs EXCEPT ![p] =
           Call([q EXCEPT !.fds = c3], [f EXCEPT !.pc = "child_exit"],
                f.c \o (IF first THEN <<1>> ELSE <<2>>))]
  /\ Unchanged

\* a child that returns from run_in_parallel or run_on_pipe instead of
\* exiting
ChildExit_returns(p) ==
  /\ At(p, "child_exit")
  /\ procs' = [procs EXCEPT ![p] = Return(procs[p], procs[p].ret)]
  /\ Unchanged

\* a child that exits with 0 whatever parse_command returned
ChildExit_success(p) ==
  /\ At(p, "child_exit")
  /\ procs' = [procs EXCEPT ![p] = Exit(procs[p], 0)]
  /\ Unchanged

\* the child of run_in_parallel and run_on_pipe: exit(parse_command(...))
ChildExit(p) ==
  /\ At(p, "child_exit")
  /\ procs' = [procs EXCEPT ![p] = Exit(procs[p], procs[p].ret)]
  /\ Unchanged

(***************************************************************************)
(* run_in_parallel, and parse_command's exit_status = ... ? 0 : 1.         *)
(***************************************************************************)
ParFork1(p) ==
  /\ At(p, "enter")
  /\ OpOf(p) = "OP_PARALLEL"
  /\ LET q == procs[p]
         f == TopOf(q)
     IN  \/ /\ forkFails < MaxForkFail
            /\ forkFails' = forkFails + 1
            /\ procs' = [procs EXCEPT ![p] = Return(q, 1)]
         \/ /\ UNCHANGED forkFails
            /\ procs' = Forked(
                 [procs EXCEPT ![p] =
                    WithTop(q, [f EXCEPT !.pc = "par_fork2",
                                         !.pid1 = ForkPid(p, f.c, 1)])],
                 ForkPid(p, f.c, 1), Child(q, p, "par_child1"))
  /\ UNCHANGED <<impl, tree, fs, pipeFails, ran>>

ParFork2(p) ==
  /\ At(p, "par_fork2")
  /\ LET q == procs[p]
         f == TopOf(q)
     IN  \/ /\ forkFails < MaxForkFail
            /\ forkFails' = forkFails + 1
            /\ procs' = [procs EXCEPT ![p] = Return(q, 1)]
         \/ /\ UNCHANGED forkFails
            /\ procs' = Forked(
                 [procs EXCEPT ![p] =
                    IF impl = "cmd.c"
                    THEN WithTop(q, [f EXCEPT !.pc = "par_wait1",
                                              !.pid2 = ForkPid(p, f.c, 2)])
                    ELSE \* part_000 returns true without waiting
                         Return(q, 0)],
                 ForkPid(p, f.c, 2), Child(q, p, "par_child2"))
  /\ UNCHANGED <<impl, tree, fs, pipeFails, ran>>

\* run_in_parallel handing the second child's exit status to its caller
ParWait_status(p) ==
  /\ LET q == procs[p]
         f == TopOf(q)
     IN  \/ /\ At(p, "par_wait1")
            /\ CanReap(f.pid1)
            /\ procs' = [procs EXCEPT ![f.pid1].st = "reaped",
                                      ![p] = WithTop(q, [f EXCEPT !.pc = "par_wait2"])]
         \/ /\ At(p, "par_wait2")
            /\ CanReap(f.pid2)
            /\ procs' = [procs EXCEPT ![f.pid2].st = "reaped",
                                      ![p] = Return(q, procs[f.pid2].status)]
  /\ Unchanged

\* cmd.c: both waitpid calls, then return true, which parse_command maps to 0
ParWait(p) ==
  /\ LET q == procs[p]
         f == TopOf(q)
     IN  \/ /\ At(p, "par_wait1")
            /\ CanReap(f.pid1)
            /\ procs' = [procs EXCEPT ![f.pid1].st = "reaped",
                                      ![p] = WithTop(q, [f EXCEPT !.pc = "par_wait2"])]
         \/ /\ At(p, "par_wait2")
            /\ CanReap(f.pid2)
            /\ procs' = [procs EXCEPT ![f.pid2].st = "reaped",
                                      ![p] = Return(q, 0)]
  /\ Unchanged

(***************************************************************************)
(* run_on_pipe, and parse_command's exit_status = ... ? 0 : 1.             *)
(***************************************************************************)
\* run_on_pipe returning WEXITSTATUS(status2) ? true : false
PipeStatus_inverted(status2) == IF status2 # 0 THEN 0 ELSE 1

\* run_on_pipe handing WEXITSTATUS(status2) through
PipeStatus_passthrough(status2) == status2

\* what run_on_pipe returns after both waitpid calls, as parse_command's
\* exit_status: WEXITSTATUS(status2) ? false : true, then ? 0 : 1
PipeStatus(status2) == IF status2 # 0 THEN 1 ELSE 0

PipeFork1(p) ==
  /\ At(p, "enter")
  /\ OpOf(p) = "OP_PIPE"
  /\ LET q == procs[p]
         f == TopOf(q)
         rd == LowestFree(q.fds)
         o1 == IF rd = -1 THEN q.fds
               ELSE [q.fds EXCEPT ![rd] = Ofd("pipe_r", "", p, f.c, 0)]
         wr == LowestFree(o1)
         o2 == IF wr = -1 THEN q.fds
               ELSE [o1 EXCEPT ![wr] = Ofd("pipe_w", "", p, f.c, 0)]
         q1 == WithTop([q EXCEPT !.fds = o2], [f EXCEPT !.pipefd = <<rd, wr>>])
     IN  \/ \* pipe() fails: no descriptor is left, or any other reason
            /\ wr = -1 \/ pipeFails < MaxPipeFail
            /\ pipeFails' = IF wr = -1 THEN pipeFails ELSE pipeFails + 1
            /\ procs' = [procs EXCEPT ![p] = Return(q, 1)]
            /\ UNCHANGED forkFails
         \/ \* fork() fails
            /\ wr # -1
            /\ forkFails < MaxForkFail
            /\ forkFails' = forkFails + 1
            /\ procs' = [procs EXCEPT ![p] = Return(q1, 1)]
            /\ UNCHANGED pipeFails
         \/ /\ wr # -1
            /\ procs' = Forked(
                 [procs EXCEPT ![p] =
                    WithTop(q1, [TopOf(q1) EXCEPT !.pc = "pipe_fork2",
                                                  !.pid1 = ForkPid(p, f.c, 1)])],
                 ForkPid(p, f.c, 1), Child(q1, p, "pipe_child1"))
            /\ UNCHANGED <<forkFails, pipeFails>>
  /\ UNCHANGED <<impl, tree, fs, ran>>

\* run_on_pipe without the parent's close(pipefd[0]); close(pipefd[1])
PipeFork2_keeps_ends(p) ==
  /\ At(p, "pipe_fork2")
  /\ LET q == procs[p]
         f == TopOf(q)
     IN  \/ /\ forkFails < MaxForkFail
            /\ forkFails' = forkFails + 1
            /\ procs' = [procs EXCEPT ![p] = Return(q, 1)]
         \/ /\ UNCHANGED forkFails
            /\ procs' = Forked(
                 [procs EXCEPT ![p] =
                    WithTop(q, [f EXCEPT !.pc = "pipe_wait1",
                                         !.pid2 = ForkPid(p, f.c, 2)])],
                 ForkPid(p, f.c, 2), Child(q, p, "pipe_child2"))
  /\ UNCHANGED <<impl, tree, fs, pipeFails, ran>>

PipeFork2(p) ==
  /\ At(p, "pipe_fork2")
  /\ LET q == procs[p]
         f == TopOf(q)
     IN  \/ /\ forkFails < MaxForkFail
            /\ forkFails' = forkFails + 1
            /\ procs' = [procs EXCEPT ![p] = Return(q, 1)]
         \/ /\ UNCHANGED forkFails
            /\ procs' = Forked(
                 [procs EXCEPT ![p] =
                    WithTop([q EXCEPT !.fds = close(close(q.fds, f.pipefd[1]), f.pipefd[2])],
                            [f EXCEPT !.pc = "pipe_wait1",
                                      !.pid2 = ForkPid(p, f.c, 2)])],
                 ForkPid(p, f.c, 2), Child(q, p, "pipe_child2"))
  /\ UNCHANGED <<impl, tree, fs, pipeFails, ran>>

PipeWait(p) ==
  /\ LET q == procs[p]
         f == TopOf(q)
     IN  \/ /\ At(p, "pipe_wait1")
            /\ CanReap(f.pid1)
            /\ procs' = [procs EXCEPT ![f.pid1].st = "reaped",
                                      ![p] = WithTop(q, [f EXCEPT !.pc = "pipe_wait2"])]
         \/ /\ At(p, "pipe_wait2")
            /\ CanReap(f.pid2)
            /\ procs' = [procs EXCEPT ![f.pid2].st = "reaped",
                                      ![p] = Return(q, PipeStatus(procs[f.pid2].status))]
  /\ Unchanged

(***************************************************************************)
(* The command trees evaluated.                                            *)
(***************************************************************************)
W_a == Word(1, "a")
W_b == Word(2, "b")
W_ro == Word(3, "ro")
\* a second word that resolves to the same string as W_b
W_b2 == Word(4, "b")
\* a second word that resolves to the same string as W_a
W_a2 == Word(5, "a")

\* <<in, out, err, io_flags>>
Redirections ==
  { <<NullWord, NullWord, NullWord, IO_REGULAR>>,
    <<W_a, NullWord, NullWord, IO_REGULAR>>,
    <<W_b, NullWord, NullWord, IO_REGULAR>>,
    <<W_b, W_a, NullWord, IO_REGULAR>>,
    <<W_b, W_a, W_b, IO_REGULAR>>,
    <<NullWord, W_b, NullWord, IO_REGULAR>>,
    <<NullWord, W_a, NullWord, IO_OUT_APPEND>>,
    <<NullWord, W_ro, NullWord, IO_REGULAR>>,
    <<W_a, W_ro, NullWord, IO_REGULAR>>,
    <<NullWord, NullWord, W_b, IO_REGULAR>>,
    <<NullWord, NullWord, W_ro, IO_REGULAR>>,
    <<NullWord, W_ro, W_b, IO_REGULAR>>,
    <<NullWord, W_b, W_ro, IO_REGULAR>>,
    <<NullWord, W_b, W_b, IO_OUT_APPEND + IO_ERR_APPEND>>,
    <<NullWord, W_ro, W_ro, IO_REGULAR>>,
    <<NullWord, W_b, W_b2, IO_REGULAR>>,
    <<NullWord, W_a, W_a, IO_OUT_APPEND + IO_ERR_APPEND>>,
    <<NullWord, W_b, W_a2, IO_ERR_APPEND>>,
    <<NullWord, W_a, W_b, IO_ERR_APPEND>> }

Verbs ==
  {verb_exit, verb_quit, verb_cd, verb_true, verb_false, verb_three,
   verb_missing, verb_assign, verb_assign_two, verb_assign_empty}

Params == {<<>>, <<"dir">>, <<"nodir">>, <<"dir", "dir">>}

\* one simple command
Leaves ==
  {Simple(Scmd(v, <<>>, r[1], r[2], r[3], r[4])) : v \in Verbs, r \in Redirections}
  \cup {Simple(Scmd(verb_cd, a, NullWord, NullWord, NullWord, IO_REGULAR)) : a \in Params}

\* the leaves of the trees with one operator
SmallLeaves ==
  {Plain(verb_true), Plain(verb_false), Plain(verb_three), Plain(verb_missing),
   Plain(verb_exit), Redir(verb_true, NullWord, W_ro, W_b, IO_REGULAR)}

\* the leaves of the trees with two operators
TinyLeaves == {Plain(verb_true), Plain(verb_three)}

Ops == {"OP_SEQUENTIAL", "OP_PARALLEL", "OP_CONDITIONAL_NZERO",
        "OP_CONDITIONAL_ZERO", "OP_PIPE"}

OneOp == {Cmd(op, a, b) : op \in Ops, a \in SmallLeaves, b \in SmallLeaves}

Forking == {"OP_PARALLEL", "OP_PIPE"}

\* an operator under an operator that evaluates its children in order, and
\* a fork under a fork
TwoOps ==
  {Cmd(op, Cmd(op1, a, b), c) :
     op \in Ordered, op1 \in Ops, a \in TinyLeaves, b \in TinyLeaves, c \in TinyLeaves}
  \cup {Cmd(op, a, Cmd(op1, b, c)) :
     op \in Ordered, op1 \in Ordered, a \in TinyLeaves, b \in TinyLeaves, c \in TinyLeaves}
  \cup {Cmd(op, Cmd(op, a, b), c) :
     op \in Forking, a \in {Plain(verb_true)}, b \in TinyLeaves, c \in TinyLeaves}
  \cup {Cmd(op, a, Cmd(op, b, c)) :
     op \in Forking, a \in {Plain(verb_true)}, b \in TinyLeaves, c \in TinyLeaves}
  \cup {Cmd("OP_PIPE", Cmd("OP_PIPE", Plain(verb_three), b), c) :
     b \in TinyLeaves, c \in TinyLeaves}
  \cup {Cmd("OP_PIPE", Plain(verb_three), Cmd("OP_PIPE", b, c)) :
     b \in TinyLeaves, c \in TinyLeaves}

\* pipelines whose readers wait for end-of-stream, alone and nested in and
\* around the other operators
Cat == Plain(verb_cat)

Pipelines ==
  {Cmd("OP_PIPE", a, Cat) :
     a \in {Plain(verb_true), Plain(verb_three), Cat,
            Redir(verb_true, NullWord, W_ro, NullWord, IO_REGULAR)}}
  \cup {Cmd("OP_PIPE", Cmd(op, Plain(verb_true), b), Cat) :
          op \in Ops, b \in {Plain(verb_true), Cat}}
  \cup {Cmd("OP_PIPE", Plain(verb_true), Cmd(op, Cat, Cat)) : op \in Ops}
  \cup {Cmd(op, Cmd("OP_PIPE", Plain(verb_true), Cat), b) :
          op \in Ops, b \in {Plain(verb_true), Cat}}
  \cup {Cmd("OP_PARALLEL", Plain(verb_true), Cmd("OP_PIPE", Plain(verb_true), Cat))}

\* a tree with an operator parse_command does not know
BadOp == {Cmd("OP_DUMMY", Plain(verb_true), Plain(verb_true))}

Trees == Leaves \cup OneOp \cup TwoOps \cup Pipelines \cup BadOp

InitFs == [n \in FileNames |-> IF n = "a" THEN "old" ELSE "absent"]

(***************************************************************************)
(* The shell calls parse_command(root, 0, NULL) on one tree.               *)
(***************************************************************************)
Init ==
  /\ impl \in Impls
  /\ tree \in Trees
  /\ procs = (ShellPid :> InitProc)
  /\ fs = InitFs
  /\ forkFails = 0
  /\ pipeFails = 0
  /\ ran = [c \in DOMAIN tree |-> <<>>]

Next ==
  \/ \E p \in DOMAIN procs : ParseSimple(p)
  \/ \E p \in DOMAIN procs : ExecChild(p)
  \/ \E p \in DOMAIN procs : ProgramExit(p)
  \/ \E p \in DOMAIN procs : SimpleWait(p)
  \/ \E p \in DOMAIN procs : EnterCmd1(p)
  \/ \E p \in DOMAIN procs : AfterCmd1(p)
  \/ \E p \in DOMAIN procs : AfterCmd2(p)
  \/ \E p \in DOMAIN procs : UnknownOp(p)
  \/ \E p \in DOMAIN procs : ParChild(p)
  \/ \E p \in DOMAIN procs : PipeChild(p)
  \/ \E p \in DOMAIN procs : ChildExit(p)
  \/ \E p \in DOMAIN procs : ParFork1(p)
  \/ \E p \in DOMAIN procs : ParFork2(p)
  \/ \E p \in DOMAIN procs : ParWait(p)
  \/ \E p \in DOMAIN procs : PipeFork1(p)
  \/ \E p \in DOMAIN procs : PipeFork2(p)
  \/ \E p \in DOMAIN procs : PipeWait(p)

Spec == Init /\ [][Next]_vars

(***************************************************************************)
(* Termination is checked on the trees with at most one operator and on    *)
(* the pipelines.  Every process that can take a step is runnable, and     *)
(* the scheduler of the operating system runs a runnable process: as long  *)
(* as some step is possible, one is taken.                                 *)
(***************************************************************************)
LiveTrees == Leaves \cup OneOp \cup Pipelines \cup BadOp

LiveInit == Init /\ tree \in LiveTrees

LiveSpec == LiveInit /\ [][Next]_vars /\ WF_vars(Next)

(***************************************************************************)
(* Vocabulary of the properties.                                           *)
(***************************************************************************)
\* the bindings of stdin, stdout and stderr
Std(fds) == <<fds[STDIN_FILENO], fds[STDOUT_FILENO], fds[STDERR_FILENO]>>

\* this step makes p return from its current activation
ReturnsIn(p) ==
  /\ procs'[p].st = "running"
  /\ procs'[p].image = <<>>
  /\ Len(procs'[p].stack) = Len(procs[p].stack) - 1

\* this step makes p call parse_command on node c
CallsIn(p, c) ==
  /\ Len(procs'[p].stack) = Len(procs[p].stack) + 1
  /\ TopOf(procs'[p]) = NewFrame(c)

Steps(p) == procs'[p] # procs[p]

\* parse_command(root) has returned to the shell
ShellReturned ==
  procs[ShellPid].st = "running" /\ procs[ShellPid].stack = <<>>

IsPrefix(a, b) == Len(a) <= Len(b) /\ SubSeq(b, 1, Len(a)) = a

\* the node at whose activation the process pid was forked
ForkNode(pid) == pid[Len(pid)][1]
ForkKind(pid) == pid[Len(pid)][2]
Parent(pid) == SubSeq(pid, 1, Len(pid) - 1)

Children == DOMAIN procs \ {ShellPid}

\* process q has an activation for node c
Inside(q, c) == \E i \in 1..Len(q.stack) : q.stack[i].c = c

\* the simple command p is about to run
ScmdOf(p) == tree[TopOf(procs[p]).c].scmd

AtSimple(p) == At(p, "enter") /\ OpOf(p) = "OP_NONE"

\* one of the redirect targets of s cannot be opened
TargetFails(s) ==
  \/ s.in # NullWord /\ ~CanOpenRead(fs, get_word(s.in))
  \/ s.out # NullWord /\ ~CanOpenWrite(get_word(s.out))
  \/ s.err # NullWord /\ ~CanOpenWrite(get_word(s.err))

(***************************************************************************)
(* C1.  Every evaluation of a Simple node that returns leaves stdin,       *)
(* stdout and stderr of the calling process bound to the open files they   *)
(* were bound to before the call: on the paths that return at once         *)
(* (redirection failure, cd, assignment, fork failure) the bindings after  *)
(* the step are those before it; on the external path, where the child     *)
(* runs in between, they are the bindings parse_simple saved on entry.     *)
(***************************************************************************)
C1_StreamsRestored ==
  [][\A p \in DOMAIN procs :
       /\ (AtSimple(p) /\ ReturnsIn(p)) =>
             Std(procs'[p].fds) = Std(procs[p].fds)
       /\ (At(p, "waitpid") /\ ReturnsIn(p)) =>
             \A i \in 1..3 :
               Std(procs'[p].fds)[i] = procs[p].fds[TopOf(procs[p]).original[i]]
    ]_vars

(***************************************************************************)
(* C2.  Once parse_command has returned to the shell, the shell holds      *)
(* exactly the descriptors it held before the call (cmd.c).                *)
(***************************************************************************)
C2_NoDescriptorLeak ==
  (impl = "cmd.c" /\ ShellReturned) => procs[ShellPid].fds = InitFds

C4_ParallelWaitsForBoth ==
  \A pid \in Children :
    (/\ tree[ForkNode(pid)].op = "OP_PARALLEL"
     /\ procs[Parent(pid)].st = "running"
     /\ procs[Parent(pid)].image = <<>>
     /\ ~Inside(procs[Parent(pid)], ForkNode(pid)))
    => Terminated(procs[pid])

(***************************************************************************)
(* C5.  A conditional node evaluates cmd2 if and only if cmd1's status     *)
(* passes its test (nonzero for OP_CONDITIONAL_NZERO, zero for             *)
(* OP_CONDITIONAL_ZERO); it returns cmd2's status when cmd2 was evaluated  *)
(* and cmd1's status otherwise.                                            *)
(***************************************************************************)
Conditional == {"OP_CONDITIONAL_NZERO", "OP_CONDITIONAL_ZERO"}

C5_Conditional ==
  [][\A p \in DOMAIN procs :
       LET f == TopOf(procs[p])
           left == procs[p].ret
           passes == IF tree[f.c].op = "OP_CONDITIONAL_NZERO"
                     THEN left # 0 ELSE left = 0
       IN  /\ (At(p, "cmd1_done") /\ tree[f.c].op \in Conditional /\ Steps(p)) =>
                 /\ CallsIn(p, f.c \o <<2>>) <=> passes
                 /\ ~passes => (ReturnsIn(p) /\ procs'[p].ret = left)
           /\ (At(p, "cmd2_done") /\ tree[f.c].op \in Conditional /\ Steps(p)) =>
                 (ReturnsIn(p) /\ procs'[p].ret = procs[p].ret)
    ]_vars

\* "false || rc3" has returned 3 to the shell after running both programs
C5_Witness ==
  /\ ShellReturned
  /\ tree[<<>>].op = "OP_CONDITIONAL_NZERO"
  /\ ForkPid(ShellPid, <<1>>, 0) \in DOMAIN procs
  /\ procs[ForkPid(ShellPid, <<1>>, 0)].status = 1
  /\ ForkPid(ShellPid, <<2>>, 0) \in DOMAIN procs
  /\ procs[ForkPid(ShellPid, <<2>>, 0)].status = 3
  /\ procs[ShellPid].ret = 3

(***************************************************************************)
(* C6.  A Sequential node evaluates cmd2 after cmd1 whatever cmd1          *)
(* returned, and returns cmd2's status.                                    *)
(***************************************************************************)
C6_Sequential ==
  [][\A p \in DOMAIN procs :
       LET f == TopOf(procs[p])
       IN  /\ (At(p, "enter") /\ tree[f.c].op = "OP_SEQUENTIAL" /\ Steps(p)) =>
                 CallsIn(p, f.c \o <<1>>)
           /\ (At(p, "cmd1_done") /\ tree[f.c].op = "OP_SEQUENTIAL" /\ Steps(p)) =>
                 CallsIn(p, f.c \o <<2>>)
           /\ (At(p, "cmd2_done") /\ tree[f.c].op = "OP_SEQUENTIAL" /\ Steps(p)) =>
                 (ReturnsIn(p) /\ procs'[p].ret = procs[p].ret)
    ]_vars

\* a sequence whose cmd1 returned the internal error value -1 went on to
\* cmd2 and returned cmd2's status 3
C6_Witness ==
  /\ ShellReturned
  /\ tree[<<>>].op = "OP_SEQUENTIAL"
  /\ tree[<<1>>].op = "OP_NONE"
  /\ TargetFails(tree[<<1>>].scmd)
  /\ ForkPid(ShellPid, <<1>>, 0) \notin DOMAIN procs
  /\ ForkPid(ShellPid, <<2>>, 0) \in DOMAIN procs
  /\ procs[ForkPid(ShellPid, <<2>>, 0)].status = 3
  /\ procs[ShellPid].ret = 3

(***************************************************************************)
(* C7.  Under a Sequential or conditional node c, a process forked by the  *)
(* evaluation of c's right subtree exists only once every process forked   *)
(* by the evaluation of c's left subtree has terminated.                   *)
(***************************************************************************)
C7_LeftBeforeRight ==
  \A c \in DOMAIN tree :
    tree[c].op \in Ordered =>
      \A x \in Children, y \in Children :
        (IsPrefix(c \o <<1>>, ForkNode(x)) /\ IsPrefix(c \o <<2>>, ForkNode(y)))
        => Terminated(procs[x])

(***************************************************************************)
(* C8.  When the verb names a program execvp cannot run, parse_simple      *)
(* returns 127 and the calling process keeps running.                      *)
(***************************************************************************)
C8_ExecFailure127 ==
  [][\A p \in DOMAIN procs :
       (At(p, "waitpid") /\ ~CanExec(ScmdOf(p).verb) /\ Steps(p)) =>
          (ReturnsIn(p) /\ procs'[p].ret = ExecFailed)
    ]_vars

(***************************************************************************)
(* C9.  As claimed: evaluating an exit or quit node, in whichever process  *)
(* and with whichever redirections, terminates the shell with status 0     *)
(* (cmd.c).                                                                *)
(***************************************************************************)
IsExit(s) == s.verb = verb_exit \/ s.verb = verb_quit

C9_ExitTerminatesShell ==
  [][\A p \in DOMAIN procs :
       (impl = "cmd.c" /\ AtSimple(p) /\ IsExit(ScmdOf(p)) /\ Steps(p)) =>
          (Terminated(procs'[ShellPid]) /\ procs'[ShellPid].status = 0)
    ]_vars

(***************************************************************************)
(* C9, amended.  Evaluating an exit or quit node whose redirection step    *)
(* succeeds terminates the process that evaluates it with status 0: the    *)
(* shell itself, or the forked child when the node sits under a Parallel   *)
(* or Pipe node.  A terminated process evaluates nothing any more.         *)
(***************************************************************************)
RedirectionsApply(p) ==
  apply_redirections(impl, ScmdOf(p),
                     duplicate_file_descriptors(impl, procs[p].fds).fds,
                     fs, p, TopOf(procs[p]).c).rc # -1

C9_ExitTerminatesProcess ==
  [][\A p \in DOMAIN procs :
       /\ (AtSimple(p) /\ IsExit(ScmdOf(p)) /\ RedirectionsApply(p) /\ Steps(p)) =>
             (Terminated(procs'[p]) /\ procs'[p].status = 0)
       /\ Terminated(procs[p]) =>
             (Terminated(procs'[p]) /\ procs'[p].stack = <<>>)
    ]_vars

\* "exit ; true": the shell has terminated with status 0 and cmd2 was never run
C9_Witness ==
  /\ tree[<<>>].op = "OP_SEQUENTIAL"
  /\ tree[<<1>>].op = "OP_NONE"
  /\ IsExit(tree[<<1>>].scmd)
  /\ Terminated(procs[ShellPid])
  /\ procs[ShellPid].status = 0
  /\ DOMAIN procs = {ShellPid}

(***************************************************************************)
(* C10.  When one of the redirect targets of a Simple node cannot be       *)
(* opened, parse_simple returns -1 and runs neither the built-in, nor the  *)
(* assignment, nor the external program (cmd.c).                           *)
(***************************************************************************)
C10_RedirectFailureAborts ==
  [][\A p \in DOMAIN procs :
       (impl = "cmd.c" /\ AtSimple(p) /\ TargetFails(ScmdOf(p)) /\ Steps(p)) =>
          /\ ReturnsIn(p)
          /\ procs'[p].ret = -1
          /\ DOMAIN procs' = DOMAIN procs
          /\ procs'[p].env = procs[p].env
          /\ procs'[p].cwd = procs[p].cwd
    ]_vars

(***************************************************************************)
(* C11.  The status parse_command returns to the shell is an integer in    *)
(* 0..255 (cmd.c).                                                         *)
(***************************************************************************)
C11_StatusIsByte ==
  (impl = "cmd.c" /\ ShellReturned) => procs[ShellPid].ret \in 0..255

(***************************************************************************)
(* C12.  The shell process terminates only in a step in which it evaluates *)
(* an exit or quit Simple node (cmd.c).                                    *)
(***************************************************************************)
C12_OnlyExitTerminatesShell ==
  [][(/\ impl = "cmd.c"
      /\ Terminated(procs'[ShellPid])
      /\ ~Terminated(procs[ShellPid]))
     => (AtSimple(ShellPid) /\ IsExit(ScmdOf(ShellPid)))
    ]_vars

(***************************************************************************)
(* C13.  Vocabulary: the two nestings of a three-stage pipeline whose      *)
(* final stage C is a Simple node, and the process that runs C's program.  *)
(***************************************************************************)
\* Pipe(Pipe(A, B), C)
LeftNested ==
  /\ tree[<<>>].op = "OP_PIPE"
  /\ tree[<<1>>].op = "OP_PIPE"
  /\ tree[<<2>>].op = "OP_NONE"

\* Pipe(A, Pipe(B, C))
RightNested ==
  /\ tree[<<>>].op = "OP_PIPE"
  /\ tree[<<2>>].op = "OP_PIPE"
  /\ tree[<<2, 2>>].op = "OP_NONE"

FinalStage == IF LeftNested THEN <<2>> ELSE <<2, 2>>

\* the process forked by parse_simple for the final stage
FinalPid ==
  IF LeftNested
  THEN ForkPid(ForkPid(ShellPid, <<>>, 2), <<2>>, 0)
  ELSE ForkPid(ForkPid(ForkPid(ShellPid, <<>>, 2), <<2>>, 2), <<2, 2>>, 0)

\* the status a program exits with, or the status of the child whose
\* execvp failed
StageStatus(verb) ==
  IF CanExec(verb) THEN ProgStatus(verb)
  ELSE IF impl = "cmd.c" THEN ExecFailed ELSE EXIT_FAILURE

\* a three-stage pipeline has been evaluated with no pipe or fork failure
PipelineDone ==
  /\ LeftNested \/ RightNested
  /\ ShellReturned
  /\ forkFails = 0
  /\ pipeFails = 0
  /\ FinalPid \in DOMAIN procs

HoldsEnd(q, kind, p, c) ==
  \E fd \in DOMAIN q.fds : q.fds[fd] = Ofd(kind, "", p, c, 0)

\* the child pid of a pipe has called parse_command on its subtree
Evaluating(pid) ==
  /\ procs[pid].stack # <<>>
  /\ \E i \in 1..Len(procs[pid].stack) :
       /\ procs[pid].stack[i].c = ForkNode(pid)
       /\ procs[pid].stack[i].pc = "child_exit"

C15_PipeEndsClosed ==
  /\ \A p \in DOMAIN procs :
       (At(p, "pipe_wait1") \/ At(p, "pipe_wait2")) =>
          /\ ~HoldsEnd(procs[p], "pipe_r", p, TopOf(procs[p]).c)
          /\ ~HoldsEnd(procs[p], "pipe_w", p, TopOf(procs[p]).c)
  /\ \A pid \in Children :
       (tree[ForkNode(pid)].op = "OP_PIPE" /\ Evaluating(pid)) =>
          /\ ForkKind(pid) = 1 =>
               ~HoldsEnd(procs[pid], "pipe_r", Parent(pid), ForkNode(pid))
          /\ ForkKind(pid) = 2 =>
               ~HoldsEnd(procs[pid], "pipe_w", Parent(pid), ForkNode(pid))

\* the parent waits for the left child while both children evaluate their
\* subtrees, the left one writing to the pipe and the right one reading it
C15_Witness ==
  /\ tree[<<>>].op = "OP_PIPE"
  /\ At(ShellPid, "pipe_wait1")
  /\ {ForkPid(ShellPid, <<>>, 1), ForkPid(ShellPid, <<>>, 2)} \subseteq DOMAIN procs
  /\ Evaluating(ForkPid(ShellPid, <<>>, 1))
  /\ Evaluating(ForkPid(ShellPid, <<>>, 2))
  /\ procs[ForkPid(ShellPid, <<>>, 1)].fds[STDOUT_FILENO] =
       Ofd("pipe_w", "", ShellPid, <<>>, 0)
  /\ procs[ForkPid(ShellPid, <<>>, 2)].fds[STDIN_FILENO] =
       Ofd("pipe_r", "", ShellPid, <<>>, 0)

(***************************************************************************)
(* C16.  When the input target of a Simple node cannot be opened, the      *)
(* redirection step fails at once: parse_simple returns -1, no file is     *)
(* created or truncated, the process has opened no file for the node, and  *)
(* stdout and stderr keep their bindings.                                  *)
(***************************************************************************)
InputFails(s) == s.in # NullWord /\ ~CanOpenRead(fs, get_word(s.in))

\* process q holds a descriptor for a file it opened for node c
HoldsFileOf(q, p, c) ==
  \E fd \in DOMAIN q.fds :
    q.fds[fd].kind = "file" /\ q.fds[fd].pid = p /\ q.fds[fd].node = c

C16_InputFailureShortCircuits ==
  [][\A p \in DOMAIN procs :
       (AtSimple(p) /\ InputFails(ScmdOf(p)) /\ Steps(p)) =>
          /\ ReturnsIn(p)
          /\ procs'[p].ret = -1
          /\ fs' = fs
          /\ ~HoldsFileOf(procs'[p], p, TopOf(procs[p]).c)
          /\ procs'[p].fds[STDOUT_FILENO] = procs[p].fds[STDOUT_FILENO]
          /\ procs'[p].fds[STDERR_FILENO] = procs[p].fds[STDERR_FILENO]
    ]_vars

\* "true < b > a 2> b" has returned -1: the input b does not exist, the
\* output a was not truncated and the error target b was not created
C16_Witness ==
  /\ tree[<<>>].op = "OP_NONE"
  /\ tree[<<>>].scmd.in = W_b
  /\ tree[<<>>].scmd.out = W_a
  /\ tree[<<>>].scmd.err = W_b
  /\ ShellReturned
  /\ procs[ShellPid].ret = -1
  /\ fs = InitFs
  /\ Std(procs[ShellPid].fds) = Std(InitFds)

(***************************************************************************)
(* C17.  When the output and the error of a Simple node are the same word  *)
(* and the redirection step succeeds, the target is opened once, in        *)
(* truncate mode whatever the append flags say, and stdout and stderr are  *)
(* bound to that one open file; when they are different words each target  *)
(* is opened on its own, with its own append flag.                         *)
(***************************************************************************)
\* the file system after open(name, O_WRONLY | O_CREAT | O_APPEND or O_TRUNC)
Opened(files, name, append) ==
  IF append /\ files[name] # "absent" THEN files
  ELSE [files EXCEPT ![name] = "empty"]

\* the files process q holds that it opened for the output or error of node c
OutputFilesOf(q, p, c) ==
  {q.fds[fd] : fd \in {n \in DOMAIN q.fds :
                         /\ q.fds[n].kind = "file"
                         /\ q.fds[n].pid = p
                         /\ q.fds[n].node = c
                         /\ q.fds[n].desc # STDIN_FILENO}}

BothRedirected(s) == s.out # NullWord /\ s.err # NullWord /\ ~TargetFails(s)

C17_OutErrTargets ==
  [][\A p \in DOMAIN procs :
       (AtSimple(p) /\ BothRedirected(ScmdOf(p)) /\ Steps(p)) =>
          LET s == ScmdOf(p)
              c == TopOf(procs[p]).c
              out == get_word(s.out)
              err == get_word(s.err)
              q == procs'[p]
          IN  IF s.out = s.err
              THEN /\ fs' = Opened(fs, out, FALSE)
                   /\ At(p, "waitpid")' =>
                        /\ q.fds[STDOUT_FILENO] = q.fds[STDERR_FILENO]
                        /\ q.fds[STDOUT_FILENO].kind = "file"
                        /\ q.fds[STDOUT_FILENO].name = out
                        /\ Cardinality(OutputFilesOf(q, p, c)) = 1
              ELSE /\ fs' = Opened(Opened(fs, err, ErrAppend(s.io_flags) # 0),
                                   out, OutAppend(s.io_flags) # 0)
                   /\ At(p, "waitpid")' =>
                        /\ q.fds[STDOUT_FILENO] # q.fds[STDERR_FILENO]
                        /\ q.fds[STDOUT_FILENO].kind = "file"
                        /\ q.fds[STDOUT_FILENO].name = out
                        /\ q.fds[STDERR_FILENO].kind = "file"
                        /\ q.fds[STDERR_FILENO].name = err
                        /\ Cardinality(OutputFilesOf(q, p, c)) = 2
    ]_vars

\* "true >> a 2>> a" with one word for both targets: the shell waits for the
\* child, a has been truncated, stdout and stderr are one open file
C17_Witness ==
  /\ tree[<<>>].op = "OP_NONE"
  /\ tree[<<>>].scmd.out = W_a
  /\ tree[<<>>].scmd.err = W_a
  /\ tree[<<>>].scmd.io_flags = IO_OUT_APPEND + IO_ERR_APPEND
  /\ At(ShellPid, "waitpid")
  /\ fs["a"] = "empty"
  /\ procs[ShellPid].fds[STDOUT_FILENO] = procs[ShellPid].fds[STDERR_FILENO]
  /\ procs[ShellPid].fds[STDOUT_FILENO].name = "a"

\* "true > b 2>> a" with two words: a keeps its content, b is created, and
\* stdout and stderr are two open files
C17_WitnessApart ==
  /\ tree[<<>>].op = "OP_NONE"
  /\ tree[<<>>].scmd.out = W_b
  /\ tree[<<>>].scmd.err = W_a2
  /\ At(ShellPid, "waitpid")
  /\ fs["a"] = "old"
  /\ fs["b"] = "empty"
  /\ procs[ShellPid].fds[STDOUT_FILENO].name = "b"
  /\ procs[ShellPid].fds[STDERR_FILENO].name = "a"

(***************************************************************************)
(* C18.  When a Parallel or Pipe node has returned because its second      *)
(* fork failed after the first child was started, the first child has been *)
(* waited for, and the process that evaluated the node holds neither end   *)
(* of the node's pipe (cmd.c).                                             *)
(***************************************************************************)
\* process p has returned from node c after forking only the first child
SecondForkFailed(p, c) ==
  /\ tree[c].op \in Forking
  /\ procs[p].st = "running"
  /\ procs[p].image = <<>>
  /\ ~Inside(procs[p], c)
  /\ ForkPid(p, c, 1) \in DOMAIN procs
  /\ ForkPid(p, c, 2) \notin DOMAIN procs

C18_FirstChildNotLeaked ==
  \A p \in DOMAIN procs, c \in DOMAIN tree :
    (impl = "cmd.c" /\ SecondForkFailed(p, c)) =>
       /\ procs[ForkPid(p, c, 1)].st = "reaped"
       /\ ~HoldsEnd(procs[p], "pipe_r", p, c)
       /\ ~HoldsEnd(procs[p], "pipe_w", p, c)

(***************************************************************************)
(* C19.  Evaluating a Simple node whose verb is NAME=VALUE, with the       *)
(* redirection step succeeding, binds NAME to everything after the first   *)
(* '=' of the verb (later '=' and the empty string included), returns 0    *)
(* and creates no process (cmd.c).                                         *)
(***************************************************************************)
\* the position of the first '=' of the verb
FirstEquals(verb) ==
  CHOOSE i \in 1..Len(verb) :
    verb[i] = "=" /\ \A j \in 1..(i - 1) : verb[j] # "="

NameOf(verb) == SubSeq(verb, 1, FirstEquals(verb) - 1)
ValueOf(verb) == SubSeq(verb, FirstEquals(verb) + 1, Len(verb))

IsAssignment(s) ==
  /\ ~IsExit(s)
  /\ s.verb # verb_cd
  /\ HasEquals(s.verb)
  /\ NameOf(s.verb) # <<>>

C19_AssignmentBindsValue ==
  [][\A p \in DOMAIN procs :
       (/\ impl = "cmd.c"
        /\ AtSimple(p)
        /\ IsAssignment(ScmdOf(p))
        /\ ~TargetFails(ScmdOf(p))
        /\ Steps(p)) =>
          /\ ReturnsIn(p)
          /\ procs'[p].ret = 0
          /\ DOMAIN procs' = DOMAIN procs
          /\ <<NameOf(ScmdOf(p).verb), ValueOf(ScmdOf(p).verb)>> \in procs'[p].env
    ]_vars

(***************************************************************************)
(* C20.  A Pipe node whose two children were created evaluates to 0 if     *)
(* its right-hand child exited with 0 and to 1 otherwise, so a conditional *)
(* node whose cmd1 is such a Pipe evaluates cmd2 according to the success  *)
(* of the pipeline's final stage: OP_CONDITIONAL_ZERO exactly when it      *)
(* exited with 0, OP_CONDITIONAL_NZERO exactly when it did not.            *)
(***************************************************************************)
C20_ConditionalOnPipe ==
  [][\A p \in DOMAIN procs :
       (/\ At(p, "cmd1_done")
        /\ OpOf(p) \in Conditional
        /\ tree[TopOf(procs[p]).c \o <<1>>].op = "OP_PIPE"
        /\ ForkPid(p, TopOf(procs[p]).c \o <<1>>, 2) \in DOMAIN procs
        /\ Steps(p)) =>
          LET c == TopOf(procs[p]).c
              succeeded == procs[ForkPid(p, c \o <<1>>, 2)].status = 0
          IN  /\ procs[p].ret = (IF succeeded THEN 0 ELSE 1)
              /\ CallsIn(p, c \o <<2>>) <=>
                   (IF OpOf(p) = "OP_CONDITIONAL_ZERO" THEN succeeded
                    ELSE ~succeeded)
    ]_vars

\* "(true | rc3) && true" has returned 1 to the shell and cmd2 was never
\* run: the pipeline's final stage exited with 3
C20_Witness ==
  /\ ShellReturned
  /\ tree[<<>>].op = "OP_CONDITIONAL_ZERO"
  /\ tree[<<1>>].op = "OP_PIPE"
  /\ ForkPid(ShellPid, <<1>>, 2) \in DOMAIN procs
  /\ procs[ForkPid(ShellPid, <<1>>, 2)].status = 3
  /\ procs[ForkPid(ShellPid, <<1>>, 1)].status = 0
  /\ \A pid \in Children : ~IsPrefix(<<2>>, ForkNode(pid))
  /\ procs[ShellPid].ret = 1

(***************************************************************************)
(* C21.  A process created by fork never leaves the activation it was      *)
(* forked in: as long as it runs shell code it is at its fork site, about  *)
(* to call execvp, evaluating its branch, or about to exit.  So            *)
(* parse_simple is called on every Simple node at most once in one         *)
(* evaluation of the tree, by one process.                                 *)
(***************************************************************************)
\* where a forked process can be in the activation that forked it
ForkSitePcs(kind) ==
  IF kind = 0 THEN {"execvp"}
  ELSE IF kind = 1 THEN {"par_child1", "pipe_child1", "child_exit"}
  ELSE {"par_child2", "pipe_child2", "child_exit"}

\* the activation for node c is the one at depth Len(c) + 1 of the stack
AtForkSite(pid) ==
  LET q == procs[pid]
      k == Len(ForkNode(pid)) + 1
  IN  /\ Len(q.stack) >= k
      /\ q.stack[k].c = ForkNode(pid)
      /\ q.stack[k].pc \in ForkSitePcs(ForkKind(pid))

C21_ForkedNeverReturns ==
  /\ \A pid \in Children :
       (procs[pid].st = "running" /\ procs[pid].image = <<>>) => AtForkSite(pid)
  /\ \A c \in DOMAIN tree : Len(ran[c]) <= 1

\* "(true & true) ; true" has returned: each branch of the Parallel node was
\* run by its own child and the node after it by the shell alone
C21_Witness ==
  /\ ShellReturned
  /\ tree[<<>>].op = "OP_SEQUENTIAL"
  /\ tree[<<1>>].op = "OP_PARALLEL"
  /\ ran[<<1, 1>>] = <<ForkPid(ShellPid, <<1>>, 1)>>
  /\ ran[<<1, 2>>] = <<ForkPid(ShellPid, <<1>>, 2)>>
  /\ ran[<<2>>] = <<ShellPid>>
  /\ \A pid \in Children : Terminated(procs[pid])

(***************************************************************************)
(* C22.  When every fork and every pipe creation succeeds, the evaluation  *)
(* of the tree comes to an end: parse_command returns to the shell (or the *)
(* shell process terminates in an exit or quit node), every process that   *)
(* was forked has terminated, so none is left blocked in waitpid or in a   *)
(* read of a pipe, and no process holds a write end of a pipe any more.    *)
(***************************************************************************)
\* a fork or pipe creation has failed
CreationFailed == forkFails > 0 \/ pipeFails > 0

HoldsWriteEnd(q) == \E fd \in DOMAIN q.fds : q.fds[fd].kind = "pipe_w"

EvaluationOver ==
  /\ ShellReturned \/ Terminated(procs[ShellPid])
  /\ \A pid \in Children : Terminated(procs[pid])
  /\ \A p \in DOMAIN procs : ~HoldsWriteEnd(procs[p])

C22_EvaluateReturns == <>(CreationFailed \/ EvaluationOver)

\* "(true | cat) | cat" has returned 0 to the shell with no failed fork or
\* pipe: both readers saw end-of-stream and every child has terminated
C22_Witness ==
  /\ tree[<<>>].op = "OP_PIPE"
  /\ tree[<<1>>].op = "OP_PIPE"
  /\ tree[<<1, 2>>].scmd.verb = verb_cat
  /\ tree[<<2>>].scmd.verb = verb_cat
  /\ ~CreationFailed
  /\ EvaluationOver
  /\ ShellReturned
  /\ Cardinality(Children) = 7
  /\ procs[ShellPid].ret = 0

====
